---- MODULE Spec2Model ----
(***************************************************************************)
(* Model of app.py: the Streamlit movie recommender.                       *)
(*                                                                         *)
(*   - module startup (artifact load, credential resolution, st.stop)      *)
(*   - fetch_movie_details (metadata client over the retrying session)     *)
(*   - recommend (similarity lookup, ranking, per-neighbour fetch)         *)
(*   - the button handler that renders the result                          *)
(*                                                                         *)
(* Conventions.  Python None is the string "None"; a JSON key that is not  *)
(* in the response body is the string "<absent>".  Similarity scores are   *)
(* integers (tenths: 10 is 1.0).  vote_average is a tagged record whose    *)
(* number is in thousandths (7666 is 7.666); a snapshot's rating is in     *)
(* tenths (77 is 7.7).  A URL is the sequence of its parts, so that the    *)
(* string concatenation of line 69 is sequence concatenation.  An HTTP     *)
(* answer is a status code; 0 stands for an attempt that got no response   *)
(* (connection error or timeout).  Sequence positions are 1-based, the     *)
(* indices the program computes with are 0-based as in the source.         *)
(***************************************************************************)
EXTENDS Integers, Sequences, FiniteSets, TLC

\* Largest catalog the artifacts on disk may hold.
MaxCatalog == 7

None == "None"
Absent == "<absent>"
KEY == "k3y"
NoFile == "<no secrets file>"

VARIABLES
    \* ---- the environment of the process (never written by the program)
    artifacts_ok,       \* movie_list.pkl and similarity.pkl load without error
    disk_movies,        \* what movie_list.pkl unpickles to
    disk_similarity,    \* what similarity.pkl unpickles to
    secrets,            \* st.secrets' TMDB_API_KEY: NoFile, Absent, or its value
    environ,            \* os.getenv("TMDB_API_KEY") after load_dotenv(): None or its value
    service_bodies,     \* JSON bodies the metadata service may answer a 2xx with
    \* ---- module globals
    pc,                 \* position of the script / of recommend
    movies_list,
    similarity,
    api_key,
    \* ---- recommend's frame
    movie,
    movies_list_recommended,
    recommended_names,
    recommended_details,
    names,              \* what recommend returned
    details,
    \* ---- fetch_movie_details' frame
    fpc,                \* "none", "call", "http", "ret" (returned), "raise" (raised)
    movie_id,
    retries,            \* the Retry object's remaining total
    attempts,           \* HTTP requests sent by this call
    fetched,            \* the snapshot the call returned
    \* ---- history
    all503,             \* every answer this call got so far was a 503
    http_used,          \* an HTTP request was sent in this run
    rec_called,         \* recommend was called in this run
    error_path,         \* "none", "lookup" or "fetch": why recommend took its except branch
    fetch_log           \* the fetch calls of this recommend, in call order

env_vars == <<artifacts_ok, disk_movies, disk_similarity, secrets, environ, service_bodies>>
glob_vars == <<movies_list, similarity, api_key>>
rec_vars == <<movie, movies_list_recommended, recommended_names, recommended_details,
              names, details, error_path, rec_called>>
fetch_vars == <<fpc, movie_id, retries, attempts, fetched, all503, fetch_log>>
vars == <<env_vars, glob_vars, rec_vars, fetch_vars, pc, http_used>>

----------------------------------------------------------------------------
(* Python helpers *)

\* `not v` for the values api_key and poster_path can take: None and "" are falsy.
Falsy(v) == v \in {None, ""}

Min(a, b) == IF a < b THEN a ELSE b

Abs(x) == IF x < 0 THEN -x ELSE x

\* s[a:b] for 0 <= a <= b.
Slice(s, a, b) == SubSeq(s, a + 1, Min(b, Len(s)))

\* list(enumerate(row)): the (index, value) tuples, index from 0.
enumerate(row) == [i \in 1..Len(row) |-> <<i - 1, row[i]>>]

\* Python's tuple order on (index, score) pairs: first component, then second.
TupleLess(a, b) == a[1] < b[1] \/ (a[1] = b[1] /\ a[2] < b[2])

\* Insert x into a descending list after every element that is not smaller
\* (sorted(..., reverse=True) keeps the original order of equal elements).
RECURSIVE InsertDesc(_, _)
InsertDesc(s, x) ==
    IF s = <<>> THEN <<x>>
    ELSE IF TupleLess(Head(s), x) THEN <<x>> \o s
    ELSE <<Head(s)>> \o InsertDesc(Tail(s), x)

\* sorted(pairs, reverse=True) with no key: descending in the tuple order.
RECURSIVE sorted_reverse(_)
sorted_reverse(s) ==
    IF s = <<>> THEN <<>>
    ELSE InsertDesc(sorted_reverse(SubSeq(s, 1, Len(s) - 1)), s[Len(s)])

\* round(x, 1) of x thousandths, in tenths, ties to even (as Python rounds a
\* tie that the float represents exactly).
Round1(x) ==
    LET q == x \div 100
        r == x % 100
    IN  IF r > 50 THEN q + 1
        ELSE IF r < 50 THEN q
        ELSE IF q % 2 = 0 THEN q ELSE q + 1

----------------------------------------------------------------------------
(* The retry strategy of the shared session *)

\* Retry(total = 3, ...): the number of retries allowed after the first attempt.
RetryTotal == 3

status_forcelist == {500, 502, 503, 504}

\* Retry.is_exhausted() after an increment left `total` retries.
IsExhaustedOneMore(total) == total < -1
is_exhausted(total) == total < 0

\* Answers after which the transport asks the Retry object for another attempt:
\* a status of the force list, or no response at all (0) on an idempotent GET.
Retryable(ans) == ans = 0 \/ ans \in status_forcelist

Answers == {0, 200, 404} \cup status_forcelist

----------------------------------------------------------------------------
(* Snapshots: the dictionaries fetch_movie_details returns *)

Placeholder(text) == <<"https://via.placeholder.com/500x750?text=", text>>

NoApiKeySnapshotSameAsNetwork ==
    [poster_path |-> Placeholder("No+Image+Available"),
     overview |-> "Unable to fetch movie details",
     release_date |-> "Unknown", rating |-> 0, runtime |-> "N/A"]
NoApiKeySnapshot ==
    [poster_path |-> Placeholder("No+API+Key"),
     overview |-> "API key not configured",
     release_date |-> "Unknown", rating |-> 0, runtime |-> "N/A"]

NetworkFallback ==
    [poster_path |-> Placeholder("No+Image+Available"),
     overview |-> "Unable to fetch movie details",
     release_date |-> "Unknown", rating |-> 0, runtime |-> "N/A"]

\* The value of `fetched` while no call has returned.
NoSnapshot ==
    [poster_path |-> <<>>, overview |-> None, release_date |-> None, rating |-> 0,
     runtime |-> None]

\* vote_average as the response body carries it.
VAbsent == [tag |-> "absent", n |-> 0]
VNull == [tag |-> "null", n |-> 0]
VNum(x) == [tag |-> "num", n |-> x]

\* data.get(key, default) on a string field: the default only when the key is
\* absent; a key that is present with JSON null gives None.
Get(v, default) == IF v = Absent THEN default ELSE v

\* data.get('vote_average', 0).
GetVote(v) == IF v.tag = "absent" THEN VNum(0) ELSE v

\* Lines 66-77 raise something that is no RequestException: the body is JSON
\* but no object (no .get), or vote_average is null (round(None, 1)).
MapRaises(body) == body.kind # "dict" \/ GetVote(body.vote_average).tag = "null"

\* Lines 68-77 on a body they map.
MapBody(body) ==
    LET poster_path == Get(body.poster_path, None)
    IN  [poster_path |->
             IF ~Falsy(poster_path)
             THEN <<"https://image.tmdb.org/t/p/w500/">> \o <<poster_path>>
             ELSE Placeholder("No+Image+Available"),
         overview |-> Get(body.overview, "No overview available"),
         release_date |-> Get(body.release_date, "Release date unknown"),
         rating |-> Round1(GetVote(body.vote_average).n),
         runtime |-> Get(body.runtime, "N/A")]

----------------------------------------------------------------------------
(* Inputs: artifacts, credentials, response bodies *)

TitleNames == <<"A", "B", "C", "D", "E", "F", "G", "H", "I", "J">>

\* A catalog of n rows; with dup, its last row repeats the first row's title.
Catalog(n, dup) ==
    [i \in 1..n |->
        [movie_id |-> 41 + i,
         title |-> IF dup /\ i = n /\ n >= 2 THEN TitleNames[1] ELSE TitleNames[i]]]

Catalogs == {Catalog(n, dup) : n \in 0..MaxCatalog, dup \in BOOLEAN}

MatrixKinds == {"decay", "flat", "column"}

\* Square matrices: similarity decaying with the distance of the rows (row 0 of
\* six is 1.0, 0.9, ..., 0.5), maximal on the diagonal with ties elsewhere, and
\* one whose diagonal is not the row maximum.
Matrix(n, kind) ==
    [i \in 1..n |-> [j \in 1..n |->
        CASE kind = "decay" -> 10 - Abs(i - j)
          [] kind = "flat" -> IF i = j THEN 10 ELSE 5
          [] OTHER -> j]]

StrValues(v) == {Absent, None, v}

DictBody(p, o, d, v, r) ==
    [kind |-> "dict", poster_path |-> p, overview |-> o, release_date |-> d,
     vote_average |-> v, runtime |-> r]

BodyFull == DictBody("/p.jpg", "An overview", "2010-07-16", VNum(7666), "148")
BodyNullVote == DictBody("/p.jpg", "An overview", "2010-07-16", VNull, "148")
BodyList == [BodyFull EXCEPT !.kind = "list"]

\* Every combination of the five consumed fields being absent, null or set,
\* and a body that is a JSON array.
AllBodies ==
    {DictBody(p, o, d, v, r) :
        p \in StrValues("/p.jpg"), o \in StrValues("An overview"),
        d \in StrValues("2010-07-16"), v \in {VAbsent, VNull, VNum(7666), VNum(8250)},
        r \in StrValues("148")}
    \cup {BodyList}

\* The bodies served while recommend runs.
RecBodies == {BodyFull, BodyNullVote}

ApiKeys == {None, "", KEY}

----------------------------------------------------------------------------
(* Initial states *)

NoFrames ==
    /\ movie = None
    /\ movies_list_recommended = <<>>
    /\ recommended_names = <<>>
    /\ recommended_details = <<>>
    /\ names = <<>>
    /\ details = <<>>
    /\ error_path = "none"
    /\ rec_called = FALSE
    /\ fpc = "none"
    /\ movie_id = 0
    /\ retries = 0
    /\ attempts = 0
    /\ fetched = NoSnapshot
    /\ all503 = FALSE
    /\ fetch_log = <<>>
    /\ http_used = FALSE

Artifacts ==
    /\ disk_movies \in Catalogs
    /\ \E kind \in MatrixKinds : disk_similarity = Matrix(Len(disk_movies), kind)

\* The process starts: nothing is loaded yet.
Init ==
    /\ artifacts_ok \in BOOLEAN
    /\ Artifacts
    /\ secrets \in {NoFile, Absent, "", KEY}
    /\ environ \in {None, "", KEY}
    /\ service_bodies = RecBodies
    /\ pc = "load"
    /\ movies_list = <<>>
    /\ similarity = <<>>
    /\ api_key = None
    /\ NoFrames

----------------------------------------------------------------------------
(* Module startup, lines 29-46 *)

\* Lines 29-35: load both artifacts, or report and st.stop().
LoadData ==
    /\ pc = "load"
    /\ IF artifacts_ok
       THEN /\ movies_list' = disk_movies
            /\ similarity' = disk_similarity
            /\ pc' = "key"
       ELSE /\ pc' = "stopped"
            /\ UNCHANGED <<movies_list, similarity>>
    /\ UNCHANGED <<env_vars, api_key, rec_vars, fetch_vars, http_used>>

\* Line 44 with only None taken for "not configured".
KeyMissingNoneOnly(k) == k = None
\* Line 44: `not api_key`.
KeyMissing(k) == Falsy(k)

\* Lines 38-46.  Without a secrets file, `in st.secrets` either answers False
\* or raises, depending on the Streamlit version; the exception ends the run.
ResolveKey ==
    /\ pc = "key"
    /\ \/ /\ secrets = NoFile
          /\ pc' = "crashed"
          /\ UNCHANGED api_key
       \/ LET k == IF secrets \notin {NoFile, Absent} THEN secrets ELSE environ
          IN  /\ api_key' = k
              /\ pc' = IF KeyMissing(k) THEN "stopped" ELSE "ui"
    /\ UNCHANGED <<env_vars, movies_list, similarity, rec_vars, fetch_vars, http_used>>

----------------------------------------------------------------------------
(* fetch_movie_details, lines 48-86 *)

\* The call returns `snap` to its caller.
Return(snap) ==
    /\ fpc' = "ret"
    /\ fetched' = snap
    /\ fetch_log' = Append(fetch_log, [id |-> movie_id, snap |-> snap])

\* Lines 49-56, and the state of the Retry object when http.get starts.
FetchEnter ==
    /\ fpc = "call"
    /\ attempts' = 0
    /\ all503' = TRUE
    /\ IF Falsy(api_key)
       THEN /\ Return(NoApiKeySnapshot)
            /\ UNCHANGED retries
       ELSE /\ fpc' = "http"
            /\ retries' = RetryTotal
            /\ UNCHANGED <<fetched, fetch_log>>
    /\ UNCHANGED <<env_vars, glob_vars, rec_vars, movie_id, pc, http_used>>

\* Line 64, an attempt the transport may repeat: the Retry object is
\* incremented; when it is exhausted the session raises a RequestException
\* (RetryError, ConnectionError or a timeout), which lines 78-86 turn into the
\* fallback; otherwise the request is sent again after the backoff.
HttpRetry ==
    /\ fpc = "http"
    /\ \E ans \in {a \in Answers : Retryable(a)} :
          /\ attempts' = attempts + 1
          /\ all503' = (all503 /\ ans = 503)
          /\ retries' = retries - 1
          /\ IF is_exhausted(retries - 1)
             THEN Return(NetworkFallback)
             ELSE UNCHANGED <<fpc, fetched, fetch_log>>
    /\ http_used' = TRUE
    /\ UNCHANGED <<env_vars, glob_vars, rec_vars, movie_id, pc>>

\* Lines 64-65 and 78-86: a status outside 2xx that is not retried makes
\* raise_for_status raise HTTPError, a RequestException.
HttpErrorStatus ==
    /\ fpc = "http"
    /\ \E ans \in {a \in Answers : ~Retryable(a) /\ a \notin 200..299} :
          /\ attempts' = attempts + 1
          /\ all503' = FALSE
          /\ Return(NetworkFallback)
    /\ http_used' = TRUE
    /\ UNCHANGED <<env_vars, glob_vars, rec_vars, movie_id, retries, pc>>

\* Lines 64-77: a 2xx answer.  The body is mapped to a snapshot, or the mapping
\* raises an exception that `except RequestException` does not catch.
HttpOk ==
    /\ fpc = "http"
    /\ \E ans \in {a \in Answers : a \in 200..299}, body \in service_bodies :
          /\ attempts' = attempts + 1
          /\ all503' = FALSE
          /\ IF MapRaises(body)
             THEN /\ fpc' = "raise"
                  /\ UNCHANGED <<fetched, fetch_log>>
             ELSE Return(MapBody(body))
    /\ http_used' = TRUE
    /\ UNCHANGED <<env_vars, glob_vars, rec_vars, movie_id, retries, pc>>

----------------------------------------------------------------------------
(* recommend, lines 88-104 *)

Titles(ml) == {ml[i].title : i \in 1..Len(ml)}

\* Line 90 with the position of the largest element of the mask, which is 0
\* when nothing matches.
TitleIndexArgmax(ml, t) ==
    LET hits == {i \in 1..Len(ml) : ml[i].title = t}
    IN  IF hits = {} THEN 0
        ELSE (CHOOSE i \in hits : \A j \in hits : i <= j) - 1
\* Line 90: movies_list[movies_list['title'] == movie].index[0], the index of
\* the first row with that title; -1 stands for the IndexError of no match.
TitleIndex(ml, t) ==
    LET hits == {i \in 1..Len(ml) : ml[i].title = t}
    IN  IF hits = {} THEN -1
        ELSE (CHOOSE i \in hits : \A j \in hits : i <= j) - 1

\* Line 92 with the slice [1:5].
TopNeighboursShort(distances) == Slice(sorted_reverse(enumerate(distances)), 1, 5)
\* Line 92: sorted(list(enumerate(distances)), reverse=True)[1:6].
TopNeighbours(distances) == Slice(sorted_reverse(enumerate(distances)), 1, 6)

\* Line 100 appending only the snapshots of fetches that succeeded.
AppendDetailSkipFallback(ds, snap) == IF snap = NetworkFallback THEN ds ELSE Append(ds, snap)
\* Line 100: recommended_details.append(...).
AppendDetail(ds, snap) == Append(ds, snap)

\* Lines 102-104: the except branch.
Except(why) ==
    /\ names' = <<>>
    /\ details' = <<>>
    /\ error_path' = why
    /\ pc' = "returned"

\* Lines 90-95.  An index error of line 90 or 91 goes to the except branch.
RecommendLookup ==
    /\ pc = "recommend"
    /\ LET movie_index == TitleIndex(movies_list, movie)
       IN  IF movie_index < 0 \/ movie_index >= Len(similarity)
           THEN /\ Except("lookup")
                /\ UNCHANGED <<movies_list_recommended, recommended_names,
                               recommended_details>>
           ELSE /\ movies_list_recommended' = TopNeighbours(similarity[movie_index + 1])
                /\ recommended_names' = <<>>
                /\ recommended_details' = <<>>
                /\ pc' = "loop"
                /\ UNCHANGED <<names, details, error_path>>
    /\ UNCHANGED <<env_vars, glob_vars, movie, rec_called, fetch_vars, http_used>>

\* Lines 97-100, up to the call of fetch_movie_details for the next neighbour.
LoopNext ==
    /\ pc = "loop"
    /\ Len(recommended_names) < Len(movies_list_recommended)
    /\ LET i == movies_list_recommended[Len(recommended_names) + 1]
       IN  /\ movie_id' = movies_list[i[1] + 1].movie_id
           /\ recommended_names' = Append(recommended_names, movies_list[i[1] + 1].title)
    /\ fpc' = "call"
    /\ pc' = "in_fetch"
    /\ UNCHANGED <<env_vars, glob_vars, movie, movies_list_recommended, recommended_details,
                   names, details, error_path, rec_called, retries, attempts, fetched,
                   all503, fetch_log, http_used>>

\* Line 100: the call returned; its snapshot is appended.
RecommendAppend ==
    /\ pc = "in_fetch"
    /\ fpc = "ret"
    /\ recommended_details' = AppendDetail(recommended_details, fetched)
    /\ pc' = "loop"
    /\ fpc' = "none"
    /\ movie_id' = 0
    /\ retries' = 0
    /\ attempts' = 0
    /\ all503' = FALSE
    /\ fetched' = NoSnapshot
    /\ UNCHANGED <<env_vars, glob_vars, movie, movies_list_recommended, recommended_names,
                   names, details, error_path, rec_called, fetch_log, http_used>>

\* Lines 100 and 102-104: the call raised; recommend catches it.
RecommendExcept ==
    /\ pc = "in_fetch"
    /\ fpc = "raise"
    /\ Except("fetch")
    /\ fpc' = "none"
    /\ UNCHANGED <<env_vars, glob_vars, movie, movies_list_recommended, recommended_names,
                   recommended_details, rec_called, movie_id, retries, attempts, fetched,
                   all503, fetch_log, http_used>>

\* Line 101.
RecommendReturn ==
    /\ pc = "loop"
    /\ Len(recommended_names) = Len(movies_list_recommended)
    /\ names' = recommended_names
    /\ details' = recommended_details
    /\ pc' = "returned"
    /\ UNCHANGED <<env_vars, glob_vars, movie, movies_list_recommended, recommended_names,
                   recommended_details, error_path, rec_called, fetch_vars, http_used>>

----------------------------------------------------------------------------
(* The page, lines 106-133 *)

\* Lines 106-113: the select box offers the catalog's titles (None when there
\* are none); recommend is called in the run the button was clicked for.
SelectAndClick ==
    /\ pc = "ui"
    /\ \E selected_movie \in (IF movies_list = <<>> THEN {None} ELSE Titles(movies_list)),
          clicked \in BOOLEAN :
          IF clicked
          THEN /\ movie' = selected_movie
               /\ rec_called' = TRUE
               /\ pc' = "recommend"
          ELSE /\ pc' = "end"
               /\ UNCHANGED <<movie, rec_called>>
    /\ UNCHANGED <<env_vars, glob_vars, movies_list_recommended, recommended_names,
                   recommended_details, names, details, error_path, fetch_vars, http_used>>

\* Lines 115-133: the result is shown and the run ends.
Render ==
    /\ pc = "returned"
    /\ pc' = "end"
    /\ UNCHANGED <<env_vars, glob_vars, rec_vars, fetch_vars, http_used>>

----------------------------------------------------------------------------
(* Specifications *)

\* The application: one run of the script.
Next ==
    \/ LoadData
    \/ ResolveKey
    \/ SelectAndClick
    \/ RecommendLookup
    \/ LoopNext
    \/ RecommendAppend
    \/ RecommendExcept
    \/ RecommendReturn
    \/ FetchEnter
    \/ HttpRetry
    \/ HttpErrorStatus
    \/ HttpOk
    \/ Render

Spec == Init /\ [][Next]_vars

\* recommend called on loaded artifacts with any title, in the catalog or not.
InitRecommend ==
    /\ artifacts_ok = TRUE
    /\ Artifacts
    /\ secrets = Absent
    /\ environ \in ApiKeys
    /\ service_bodies = RecBodies
    /\ movies_list = disk_movies
    /\ similarity = disk_similarity
    /\ api_key = environ
    /\ pc = "recommend"
    /\ movie \in Titles(disk_movies) \cup {"Z"}
    /\ movies_list_recommended = <<>>
    /\ recommended_names = <<>>
    /\ recommended_details = <<>>
    /\ names = <<>>
    /\ details = <<>>
    /\ error_path = "none"
    /\ rec_called = TRUE
    /\ fpc = "none"
    /\ movie_id = 0
    /\ retries = 0
    /\ attempts = 0
    /\ fetched = NoSnapshot
    /\ all503 = FALSE
    /\ fetch_log = <<>>
    /\ http_used = FALSE

NextRecommend ==
    \/ RecommendLookup
    \/ LoopNext
    \/ RecommendAppend
    \/ RecommendExcept
    \/ RecommendReturn
    \/ FetchEnter
    \/ HttpRetry
    \/ HttpErrorStatus
    \/ HttpOk

SpecRecommend == InitRecommend /\ [][NextRecommend]_vars

\* fetch_movie_details called with any credential state and any response body.
InitFetch ==
    /\ artifacts_ok = TRUE
    /\ disk_movies = <<>>
    /\ disk_similarity = <<>>
    /\ secrets = Absent
    /\ environ \in ApiKeys
    /\ service_bodies = AllBodies
    /\ movies_list = <<>>
    /\ similarity = <<>>
    /\ api_key = environ
    /\ pc = "caller"
    /\ movie = None
    /\ movies_list_recommended = <<>>
    /\ recommended_names = <<>>
    /\ recommended_details = <<>>
    /\ names = <<>>
    /\ details = <<>>
    /\ error_path = "none"
    /\ rec_called = FALSE
    /\ fpc = "call"
    /\ movie_id \in {42, 43}
    /\ retries = 0
    /\ attempts = 0
    /\ fetched = NoSnapshot
    /\ all503 = FALSE
    /\ fetch_log = <<>>
    /\ http_used = FALSE

NextFetch ==
    \/ FetchEnter
    \/ HttpRetry
    \/ HttpErrorStatus
    \/ HttpOk

SpecFetch == InitFetch /\ [][NextFetch]_vars

----------------------------------------------------------------------------
(* Properties *)

Range(f) == {f[i] : i \in 1..Len(f)}

\* The row of the similarity matrix recommend reads for the queried title.
QueriedRow == similarity[TitleIndex(movies_list, movie) + 1]

OccursOnce(t) == Cardinality({i \in 1..Len(movies_list) : movies_list[i].title = t}) = 1

SelfIsRowMax ==
    LET row == QueriedRow
    IN  \A j \in 1..Len(row) : row[j] <= row[TitleIndex(movies_list, movie) + 1]

\* The ranking the specification describes: score descending, ties by index
\* descending.
ScoreLess(a, b) == a[2] < b[2] \/ (a[2] = b[2] /\ a[1] < b[1])

RECURSIVE InsertByScore(_, _)
InsertByScore(s, x) ==
    IF s = <<>> THEN <<x>>
    ELSE IF ScoreLess(Head(s), x) THEN <<x>> \o s
    ELSE <<Head(s)>> \o InsertByScore(Tail(s), x)

RECURSIVE SortByScore(_)
SortByScore(s) ==
    IF s = <<>> THEN <<>>
    ELSE InsertByScore(SortByScore(SubSeq(s, 1, Len(s) - 1)), s[Len(s)])

TitlesOf(pairs) == [i \in 1..Len(pairs) |-> movies_list[pairs[i][1] + 1].title]

\* C1: for a catalog of at least two entries, a row whose self-similarity is
\* its maximum and a title that occurs exactly once, the names recommend
\* returns never contain the queried title.
C1_NoSelfInResult ==
    (/\ pc = "returned"
     /\ Len(movies_list) >= 2
     /\ OccursOnce(movie)
     /\ SelfIsRowMax)
    => movie \notin Range(names)

\* C2: recommend returns the titles of ranks 2 to 6 of the queried row ordered
\* by score descending, ties by index descending; for the catalog A..F with
\* row 1.0, 0.9, 0.8, 0.7, 0.6, 0.5 for A, recommend("A") is B, C, D, E, F.
C2_RankOrder ==
    (pc = "returned" /\ error_path = "none")
    => /\ names = TitlesOf(Slice(SortByScore(enumerate(QueriedRow)), 1, 6))
       /\ (/\ movies_list = Catalog(6, FALSE)
           /\ similarity = Matrix(6, "decay")
           /\ movie = "A")
          => names = <<"B", "C", "D", "E", "F">>

\* C3: for a catalog of n >= 2 entries and a title in it, when no fetch raised,
\* recommend returns exactly min(5, n - 1) names and does not take the except
\* branch.
C3_Count ==
    (/\ pc = "returned"
     /\ Len(movies_list) >= 2
     /\ movie \in Titles(movies_list)
     /\ error_path # "fetch")
    => /\ error_path = "none"
       /\ Len(names) = Min(5, Len(movies_list) - 1)

C3_Witness ==
    /\ pc = "returned"
    /\ Len(movies_list) > 6
    /\ movie \in Titles(movies_list)
    /\ error_path = "none"
    /\ Len(names) = 5

\* C4: for a title that is not in the catalog, recommend never reaches the
\* ranking or a fetch, and returns two empty sequences from its except branch.
C4_AbsentTitle ==
    movie \notin Titles(movies_list)
    => /\ pc \in {"recommend", "returned"}
       /\ fpc = "none"
       /\ pc = "returned" => (names = <<>> /\ details = <<>> /\ error_path = "lookup")

C4_Witness ==
    /\ pc = "returned"
    /\ Len(movies_list) >= 2
    /\ movie \notin Titles(movies_list)
    /\ names = <<>>

\* C10: the two sequences recommend returns have the same length; when it
\* returns from line 101 they have one entry per ranked neighbour, in rank
\* order, details[i] being the snapshot of the i-th fetch, which was called
\* with the movie_id of the entry whose title is names[i]; a fetch is called
\* only after the previous one returned.
C10_Aligned ==
    /\ pc = "returned" => Len(names) = Len(details)
    /\ (pc = "returned" /\ error_path = "none")
       => /\ Len(names) = Len(movies_list_recommended)
          /\ Len(fetch_log) = Len(names)
          /\ \A i \in 1..Len(names) :
                LET entry == movies_list[movies_list_recommended[i][1] + 1]
                IN  /\ names[i] = entry.title
                    /\ i <= Len(fetch_log) => fetch_log[i].id = entry.movie_id
                    /\ i <= Len(fetch_log) /\ i <= Len(details)
                       => details[i] = fetch_log[i].snap
    /\ pc = "in_fetch"
       => /\ Len(recommended_details) = Len(recommended_names) - 1
          /\ Len(fetch_log) = Len(recommended_details) + (IF fpc = "ret" THEN 1 ELSE 0)

C10_Witness ==
    /\ pc = "returned"
    /\ error_path = "none"
    /\ Len(details) >= 3
    /\ details[1] # NetworkFallback
    /\ details[2] = NetworkFallback
    /\ details[3] # NetworkFallback

Defined(snap) ==
    /\ Len(snap.poster_path) > 0
    /\ snap.overview # None
    /\ snap.release_date # None
    /\ snap.rating \in Int
    /\ snap.runtime # None

\* C5: every snapshot fetch_movie_details returns has its five fields set to a
\* value that is not None.
C5_FullyPopulated == fpc = "ret" => Defined(fetched)

\* C6: fetch_movie_details never raises to its caller.
C6_NeverRaises == fpc # "raise"

\* C7 as claimed: a call sends at most 3 requests, and once three answers in
\* a row were 503 no further request is sent: the call has returned the
\* network fallback.
C7_ThreeAttempts ==
    /\ attempts <= 3
    /\ (attempts = 3 /\ all503) => (fpc = "ret" /\ fetched = NetworkFallback)

\* C7 amended: a call sends at most 4 requests (the first and RetryTotal
\* retries); after one, two or three 503 answers in a row the request is sent
\* again, and after four no further request is sent: the call has returned
\* the network fallback (rating 0.0, runtime "N/A").
C7_FourAttempts ==
    /\ attempts <= RetryTotal + 1
    /\ fpc = "http" => attempts <= RetryTotal
    /\ (all503 /\ attempts \in 1..RetryTotal) => fpc = "http"
    /\ (all503 /\ attempts = RetryTotal + 1)
       => /\ fpc = "ret"
          /\ fetched = NetworkFallback
          /\ fetched.rating = 0
          /\ fetched.runtime = "N/A"

C7_Witness == attempts = RetryTotal + 1 /\ all503 /\ fpc = "ret" /\ movie_id = 42

\* Neither the secrets store nor the environment holds a credential.
NoCredential == secrets \in {NoFile, Absent, ""} /\ environ \in {None, ""}

\* C8: when the artifacts fail to load or no credential resolves, the run
\* stops at startup: recommend is never called and no fetch or HTTP request
\* happens in it.
C8_HaltAtStartup ==
    (~artifacts_ok \/ NoCredential)
    => /\ pc \in {"load", "key", "stopped", "crashed"}
       /\ ~rec_called
       /\ fpc = "none"
       /\ ~http_used

C8_Witness == pc = "stopped" /\ artifacts_ok /\ NoCredential /\ Len(movies_list) >= 2

\* C9: called with no credential, fetch_movie_details sends no HTTP request
\* and returns the "No+API+Key" snapshot, which differs from the network
\* fallback.
C9_NoKeyFallback ==
    api_key \in {None, ""}
    => /\ fpc \in {"call", "ret"}
       /\ attempts = 0
       /\ ~http_used
       /\ fpc = "ret"
          => /\ fetched = [poster_path |-> <<"https://via.placeholder.com/500x750?text=",
                                             "No+API+Key">>,
                           overview |-> "API key not configured",
                           release_date |-> "Unknown", rating |-> 0, runtime |-> "N/A"]
             /\ fetched # NetworkFallback

C9_Witness == fpc = "ret" /\ api_key \in {None, ""} /\ fetch_log # <<>>

====
